---- MODULE Spec2Model ----
(***************************************************************************)
(* The per-connection result aggregator of src/backend/app.py              *)
(* (websocket_asr): three annotator receivers merge partial results into   *)
(* intermediate_result, queue_if_ready hands complete records to           *)
(* result_queue, task_send_result dispatches them to the client, the       *)
(* agent and the database.                                                 *)
(*                                                                         *)
(* Python dicts are functions whose DOMAIN is the set of keys, so that a   *)
(* missing key (KeyError) is something the model can see.  The tuple       *)
(* (idx, ir) that queue_if_ready enqueues holds a reference to the dict    *)
(* that stays in intermediate_result: it is modelled as <<idx, Ref(idx)>>, *)
(* dereferenced when the dispatcher reads it.  Text is a sequence of       *)
(* letters, += is \o.                                                      *)
(*                                                                         *)
(* A step of a receiver is the arrival of one message and all the code up  *)
(* to the next await that can suspend (put on the unbounded queue does     *)
(* not).  Left out: a non-empty audio chunk (pushed to the VAD, no effect  *)
(* on the state below) and a falsy message on an annotator socket (the     *)
(* annotators of src/backend send none).  The tables are those the         *)
(* handler uses through Session, Speaker and Transcript.                   *)
(*                                                                         *)
(* The DatabaseManager of src/backend/db.py is the second part: the table  *)
(* transcripts with add_transcript, split_transcript and merge_transcripts *)
(* (DbSpec).  The handler does not call it, so each part leaves the        *)
(* other's variables alone.                                                *)
(***************************************************************************)
EXTENDS Integers, Sequences, FiniteSets, TLC

\* ---------------------------------------------------------------- bounds
\* The number of messages the receivers take in a run, with the varied
\* payloads (MaxPartials), with the fixed payload (MaxDeep) and with the
\* fixed payload on one segment id (MaxSingle), with varied payloads on one
\* segment id (MaxMerge); the longest segment_content.
MaxPartials == 3
MaxDeep == 6
MaxSingle == 7
MaxMerge == 5
MaxContent == 2

\* The number of calls of the DatabaseManager in a run, the fractional bits
\* of a segment_index.
MaxDbOps == 4
FracBits == 2

\* The number of other client connections opened while this one runs.
MaxOthers == 2

\* What the annotators may send: segment ids, recognised text, speaker names
\* (src/backend/sid.py names speakers speaker_<n>), segment types
\* (src/backend/kws.py sends these two), finished bits.
Segs == {1, 2}
Texts == {<<>>, <<"a">>, <<"b">>}
Names == {"speaker_1", "speaker_2"}
KwsTypes == {"transcript", "instruction"}
AgentResponses == {<<"r">>}
VariedInputs ==
    [segs |-> Segs, texts |-> Texts, names |-> Names, types |-> KwsTypes,
     fins |-> BOOLEAN, budget |-> MaxPartials]
FixedInputs ==
    [segs |-> Segs, texts |-> {<<>>}, names |-> {"speaker_1"}, types |-> {"instruction"},
     fins |-> BOOLEAN, budget |-> MaxDeep]
SingleInputs ==
    [segs |-> {1}, texts |-> {<<>>}, names |-> {"speaker_1"}, types |-> {"instruction"},
     fins |-> BOOLEAN, budget |-> MaxSingle]
MergeInputs ==
    [segs |-> {1}, texts |-> {<<"a">>, <<"b">>}, names |-> Names, types |-> KwsTypes,
     fins |-> BOOLEAN, budget |-> MaxMerge]

Flags == {"asr_finished", "sid_finished", "kws_finished"}
Sockets == {"audio_push_socket", "asr_pull_socket", "sid_pull_socket", "kws_pull_socket",
            "trans_push_socket", "agent_pull_socket"}
Receivers == {"recv_asr", "recv_sid", "recv_kws", "recv_agent"}
Tasks == Receivers \cup {"send_pcm", "send_result"}

VARIABLES
    intermediate_result,  \* segment id -> accumulator dict
    name_2_id,            \* speaker name -> session-local id
    result_queue,         \* asyncio.Queue: sequence of entries
    task,                 \* task name -> "running" | "returned" | "failed" | "cancelled"
    disp_pc,              \* task_send_result: "start" (before the loop) | "loop"
    first_exc,            \* the exception asyncio.gather hands to the handler
    handler,              \* websocket_asr: "gather" | "returned" | "raised"
    client,               \* the client's end of the websocket
    client_msgs,          \* messages the client has received
    trans_out,            \* records pushed to the agent
    session_id_counter,   \* module-level counter
    db_sessions, db_speakers, db_transcripts,   \* tables
    nrecv,                \* number of annotator/agent messages received so far
    inputs,               \* what the annotators send in this run (never changes)
    enq_log,              \* history: what was put on result_queue, in order, as it was then
    reported,             \* history: <<idx, annotator>> that has sent finished=true
    sent_log,             \* history: the segment id of each message of client_msgs
    sockets,              \* the ZeroMQ sockets of the connection that are open
    heard,                \* history: segment id -> what the annotators said of it
    in_flight,            \* the puts on result_queue that wait for room, oldest first
    transcripts,          \* DatabaseManager: the rows of the table transcripts
    segment_id_seq,       \* DatabaseManager: last value of the sequence of segment_id
    db_call,              \* DatabaseManager: the last call, its arguments and outcome
    nops,                 \* number of calls of the DatabaseManager so far
    held,                 \* history: <<session_id, segment_index, segment_id>> ever in the table
    session,              \* task_send_result: <<>>, or <<the Session row it created>>
    session_speakers,     \* DatabaseManager: the rows of the table session_speakers
    session_speakers_seq, \* DatabaseManager: last value of the sequence of session_speakers.id
    tx,                   \* DatabaseManager: client -> the call it is making, statement by statement
    observed              \* what the last reader got

vars == <<intermediate_result, name_2_id, result_queue, task, disp_pc, first_exc,
          handler, client, client_msgs, trans_out, session_id_counter,
          db_sessions, db_speakers, db_transcripts, nrecv, inputs, enq_log, reported, sent_log,
          sockets, heard, in_flight, transcripts, segment_id_seq, db_call, nops, held, session,
          session_speakers, session_speakers_seq, tx, observed>>

\* The state of the connection handler, the state of the DatabaseManager.
appvars == <<intermediate_result, name_2_id, result_queue, task, disp_pc, first_exc,
             handler, client, client_msgs, trans_out, session_id_counter,
             db_sessions, db_speakers, db_transcripts, nrecv, inputs, enq_log, reported,
             sent_log, sockets, heard, in_flight, session>>
storevars == <<transcripts, segment_id_seq>>
callvars == <<db_call, nops, held>>
spkvars == <<session_speakers, session_speakers_seq>>
txvars == <<tx, observed>>
dbvars == <<storevars, callvars, spkvars, txvars>>

\* ------------------------------------------------------------ dict helpers
DictSet(d, k, v) == [x \in (DOMAIN d) \cup {k} |-> IF x = k THEN v ELSE d[x]]
DictDel(d, ks) == [x \in (DOMAIN d) \ ks |-> d[x]]

\* The default factory of intermediate_result.
NewRecord ==
    [x \in {"speaker_id", "speaker_name", "segment_type", "segment_content"} \cup Flags |->
        CASE x = "speaker_id" -> -1
          [] x = "speaker_name" -> "Unknown Speaker"
          [] x = "segment_type" -> "transcript"
          [] x = "segment_content" -> <<>>
          [] OTHER -> FALSE]

\* intermediate_result[idx] of a defaultdict: the entry, created when missing.
Lookup(m, idx) == IF idx \in DOMAIN m THEN m[idx] ELSE NewRecord
Store(m, idx, ir) == [x \in (DOMAIN m) \cup {idx} |-> IF x = idx THEN ir ELSE m[x]]

Ref(idx) == [ref |-> idx]

\* What the annotators have said of segment idx so far: the recognised text
\* in arrival order, the last speaker name, the last segment type; what none
\* has reported is the default.
Hear(h, idx) ==
    IF idx \in DOMAIN h THEN h[idx]
    ELSE [content |-> <<>>, name |-> "Unknown Speaker", type |-> "transcript"]
Deref(r) == intermediate_result[r.ref]

\* ------------------------------------------------------------ accumulator
Kinds == {"asr", "sid", "kws"}

\* A readiness test that forgets the keyword spotter.
ReadyCheck_NoKws(ir) ==
    IF "asr_finished" \notin DOMAIN ir THEN "KeyError"
    ELSE IF ~ir["asr_finished"] THEN "pending"
    ELSE IF "sid_finished" \notin DOMAIN ir THEN "KeyError"
    ELSE IF ~ir["sid_finished"] THEN "pending"
    ELSE "ready"

\* The condition of queue_if_ready, `and` evaluated left to right; a key that
\* is not in the dict raises KeyError.
ReadyCheck(ir) ==
    IF "asr_finished" \notin DOMAIN ir THEN "KeyError"
    ELSE IF ~ir["asr_finished"] THEN "pending"
    ELSE IF "sid_finished" \notin DOMAIN ir THEN "KeyError"
    ELSE IF ~ir["sid_finished"] THEN "pending"
    ELSE IF "kws_finished" \notin DOMAIN ir THEN "KeyError"
    ELSE IF ~ir["kws_finished"] THEN "pending"
    ELSE "ready"

\* result_queue = asyncio.Queue(): maxsize 0, a queue without bound.
QueueMaxsize == 0

\* A queue that holds one item at most.
PutBlocks_Bounded(q) == Len(q) >= 1

\* await result_queue.put(item) suspends the task when the queue is full,
\* and asyncio.Queue.full() is false always when maxsize is 0; otherwise put
\* adds the item and returns without giving way to another task.
PutBlocks(q) == QueueMaxsize > 0 /\ Len(q) >= QueueMaxsize

\* The tasks suspended in a put.
Putting == {in_flight[k].task : k \in DOMAIN in_flight}

\* queue_if_ready(idx) on the map m and the queue q.  When ready, the three
\* flags are deleted from the dict and (idx, ir) is put on the queue; the
\* final `del ir` unbinds the local name only, the dict stays in the map.
\* (flags: the flags as the condition saw them, for the history.)
queue_if_ready(m, q, idx) ==
    LET ir == Lookup(m, idx)
        c == ReadyCheck(ir)
    IN  IF c = "ready"
        THEN [m |-> Store(m, idx, DictDel(ir, Flags)),
              q |-> IF PutBlocks(q) THEN q ELSE Append(q, <<idx, Ref(idx)>>),
              put |-> ~PutBlocks(q), waits |-> PutBlocks(q), exc |-> "none",
              flags |-> [f \in Flags |-> f \in DOMAIN ir /\ ir[f]]]
        ELSE [m |-> Store(m, idx, ir), q |-> q, put |-> FALSE, waits |-> FALSE,
              exc |-> IF c = "KeyError" THEN "KeyError" ELSE "none",
              flags |-> [f \in Flags |-> f \in DOMAIN ir /\ ir[f]]]

\* A merge that keeps the text of the last partial only.
MergeAsr_Overwrite(ir, text, finished) ==
    DictSet(DictSet(ir, "segment_content", text), "asr_finished", finished)

\* The merge of one partial into the record, per annotator.
MergeAsr(ir, text, finished) ==
    DictSet(DictSet(ir, "segment_content", ir["segment_content"] \o text),
            "asr_finished", finished)

\* An allocation that counts the speakers only, not the two reserved names.
AssignId_FromZero(n2i, name) ==
    IF name \in DOMAIN n2i THEN n2i ELSE DictSet(n2i, name, Cardinality(DOMAIN n2i) - 2)

\* name_2_id after the lookup of name: a new name gets len(name_2_id).
AssignId(n2i, name) ==
    IF name \in DOMAIN n2i THEN n2i ELSE DictSet(n2i, name, Cardinality(DOMAIN n2i))

MergeSid(ir, n2i, name, finished) ==
    DictSet(DictSet(DictSet(ir, "speaker_name", name),
                    "speaker_id", AssignId(n2i, name)[name]),
            "sid_finished", finished)

MergeKws(ir, type, finished) ==
    DictSet(DictSet(ir, "segment_type", type), "kws_finished", finished)

\* A receiver takes a message while its socket is open.
CanReceive(t) ==
    /\ task[t] = "running"
    /\ t \notin Putting
    /\ handler = "gather"
    /\ nrecv < inputs.budget

\* What an exception in a task does: the task ends, and the first exception
\* of the gathered tasks is the one the handler will see.
Raise(t, exc) ==
    /\ task' = [task EXCEPT ![t] = IF exc = "none" THEN @ ELSE "failed"]
    /\ first_exc' = IF exc # "none" /\ first_exc = "none" /\ handler = "gather"
                    THEN exc ELSE first_exc

\* The common tail of task_recv_asr/sid/kws: the merged record ir1 is in the
\* map, then queue_if_ready runs; no suspension point in between.
ApplyPartial(t, kind, idx, ir1, finished) ==
    LET r == queue_if_ready(Store(intermediate_result, idx, ir1), result_queue, idx)
    IN  /\ intermediate_result' = r.m
        /\ result_queue' = r.q
        /\ Raise(t, r.exc)
        /\ nrecv' = nrecv + 1
        /\ enq_log' = IF r.put
                      THEN Append(enq_log, [kind |-> "seg", idx |-> idx, flags |-> r.flags,
                                           record |-> r.m[idx]])
                      ELSE enq_log
        /\ reported' = IF finished THEN reported \cup {<<idx, kind>>} ELSE reported
        /\ in_flight' = IF r.waits
                        THEN Append(in_flight,
                                    [task |-> t, item |-> <<idx, Ref(idx)>>,
                                     log |-> [kind |-> "seg", idx |-> idx, flags |-> r.flags,
                                              record |-> r.m[idx]]])
                        ELSE in_flight

task_recv_asr(idx, text, finished) ==
    /\ CanReceive("recv_asr")
    /\ LET ir == Lookup(intermediate_result, idx)
       IN  /\ Len(ir["segment_content"]) + Len(text) <= MaxContent
           /\ ApplyPartial("recv_asr", "asr", idx, MergeAsr(ir, text, finished), finished)
    /\ heard' = Store(heard, idx, [Hear(heard, idx) EXCEPT !.content = @ \o text])
    /\ UNCHANGED <<dbvars, session, inputs, sockets, name_2_id, disp_pc, handler, client, client_msgs, trans_out,
                   session_id_counter, db_sessions, db_speakers, db_transcripts, sent_log>>

task_recv_sid(idx, name, finished) ==
    /\ CanReceive("recv_sid")
    /\ LET ir == Lookup(intermediate_result, idx)
       IN  ApplyPartial("recv_sid", "sid", idx, MergeSid(ir, name_2_id, name, finished), finished)
    /\ name_2_id' = AssignId(name_2_id, name)
    /\ heard' = Store(heard, idx, [Hear(heard, idx) EXCEPT !.name = name])
    /\ UNCHANGED <<dbvars, session, inputs, sockets, disp_pc, handler, client, client_msgs, trans_out,
                   session_id_counter, db_sessions, db_speakers, db_transcripts, sent_log>>

task_recv_kws(idx, type, finished) ==
    /\ CanReceive("recv_kws")
    /\ LET ir == Lookup(intermediate_result, idx)
       IN  ApplyPartial("recv_kws", "kws", idx, MergeKws(ir, type, finished), finished)
    /\ heard' = Store(heard, idx, [Hear(heard, idx) EXCEPT !.type = type])
    /\ UNCHANGED <<dbvars, session, inputs, sockets, name_2_id, disp_pc, handler, client, client_msgs, trans_out,
                   session_id_counter, db_sessions, db_speakers, db_transcripts, sent_log>>

\* The record the agent sends (src/backend/agent.py run_offline).
AgentRecord(response) ==
    [x \in {"speaker_id", "speaker_name", "segment_type", "segment_content"} |->
        CASE x = "speaker_id" -> 0
          [] x = "speaker_name" -> "Assistant"
          [] x = "segment_type" -> "assistant"
          [] OTHER -> response]

\* task_recv_agent: the agent's dict goes on the queue as it is.
task_recv_agent(response) ==
    /\ CanReceive("recv_agent")
    /\ result_queue' = IF PutBlocks(result_queue) THEN result_queue
                       ELSE Append(result_queue, AgentRecord(response))
    /\ enq_log' = IF PutBlocks(result_queue) THEN enq_log
                  ELSE Append(enq_log, [kind |-> "agent"])
    /\ in_flight' = IF PutBlocks(result_queue)
                    THEN Append(in_flight, [task |-> "recv_agent", item |-> AgentRecord(response),
                                            log |-> [kind |-> "agent"]])
                    ELSE in_flight
    /\ nrecv' = nrecv + 1
    /\ UNCHANGED <<dbvars, session, inputs, sockets, heard, reported, intermediate_result, name_2_id, task, disp_pc, first_exc, handler, client,
                   client_msgs, trans_out, session_id_counter, db_sessions,
                   db_speakers, db_transcripts, sent_log>>

\* ------------------------------------------------------------- audio sender
\* task_send_pcm: a zero-length chunk makes the task return, nothing is pushed.
task_send_pcm_end ==
    /\ task["send_pcm"] = "running"
    /\ handler = "gather"
    /\ client = "connected"
    /\ task' = [task EXCEPT !["send_pcm"] = "returned"]
    /\ UNCHANGED <<dbvars, session, in_flight, inputs, sockets, heard, reported, intermediate_result, name_2_id, result_queue, disp_pc, first_exc, handler,
                   client, client_msgs, trans_out, session_id_counter, db_sessions,
                   db_speakers, db_transcripts, nrecv, enq_log, sent_log>>

\* The client goes away: receive_bytes raises WebSocketDisconnect in
\* task_send_pcm when that task is still waiting in it.
ClientDisconnect ==
    /\ client = "connected"
    /\ handler = "gather"
    /\ client' = "disconnected"
    /\ Raise("send_pcm", IF task["send_pcm"] = "running" THEN "WebSocketDisconnect" ELSE "none")
    /\ UNCHANGED <<dbvars, session, in_flight, inputs, sockets, heard, reported, intermediate_result, name_2_id, result_queue, disp_pc, handler,
                   client_msgs, trans_out, session_id_counter, db_sessions, db_speakers,
                   db_transcripts, nrecv, inputs, enq_log, reported, sent_log>>

\* --------------------------------------------------------------- dispatcher
\* The websocket takes a message while the client is there and the handler
\* has not exited.
WsOpen == client = "connected" /\ handler = "gather"
SendFailures == {"WebSocketDisconnect", "RuntimeError"}

\* A queue that hands out its newest item.
GetPos_Lifo(q) == Len(q)

\* The position result_queue.get() takes its item from: asyncio.Queue is FIFO.
GetPos(q) == 1
Without(q, k) == [j \in 1..(Len(q) - 1) |-> IF j < k THEN q[j] ELSE q[j + 1]]

\* The setup of task_send_result before its loop: with the counter at 0 the
\* three tables are wiped; the session row is added under the counter's
\* value; the counter is incremented.
SessionRow(n) == [session_id |-> n, session_name |-> <<"meeting", n>>]

task_send_result_start ==
    /\ task["send_result"] = "running"
    /\ disp_pc = "start"
    /\ LET wipe == session_id_counter = 0
           sessions == IF wipe THEN {} ELSE db_sessions
           dup == \E r \in sessions : r.session_id = session_id_counter
       IN  /\ db_transcripts' = IF wipe THEN {} ELSE db_transcripts
           /\ db_speakers' = IF wipe THEN {} ELSE db_speakers
           /\ db_sessions' = IF dup THEN sessions ELSE sessions \cup {SessionRow(session_id_counter)}
           /\ Raise("send_result", IF dup THEN "IntegrityError" ELSE "none")
           /\ session_id_counter' = IF dup THEN session_id_counter ELSE session_id_counter + 1
           /\ disp_pc' = IF dup THEN disp_pc ELSE "loop"
           /\ session' = IF dup THEN session ELSE <<SessionRow(session_id_counter)>>
    /\ UNCHANGED <<dbvars, in_flight, inputs, sockets, heard, reported, intermediate_result, name_2_id, result_queue, handler, client,
                   client_msgs, trans_out, nrecv, enq_log, sent_log>>

\* The try block of the loop (the except clause rolls back and goes on): the
\* speaker row is added and committed unless a key is missing or the id is
\* already a primary key of the table.
PersistSpeaker(speakers, result) ==
    IF /\ {"speaker_id", "speaker_name", "segment_content", "segment_type"} \subseteq DOMAIN result
       /\ \A r \in speakers : r.speaker_id # result["speaker_id"]
    THEN speakers \cup {[speaker_id |-> result["speaker_id"],
                         speaker_name |-> result["speaker_name"]]}
    ELSE speakers

\* The try block, next: building the Transcript row evaluates
\* TranscriptType[transcript_type], a name bound nowhere (NameError, caught):
\* no row is added.
PersistTranscript(rows, segment_id, result) == rows

\* One iteration of the loop of task_send_result on the entry taken from the
\* queue: what reaches the client, the agent and the tables, and the exception
\* that ends the task ("none": the loop goes on).
\*   segment_id, result = entry      ValueError unless entry has two items
\*   send_json(result)               raises when the websocket is gone
\*   result["type"]                  KeyError when the dict has no such key
IsPair(entry) == Cardinality(DOMAIN entry) = 2

Iteration(entry, sendexc) ==
    LET nothing == [sent |-> <<>>, fwd |-> <<>>, speakers |-> db_speakers,
                    transcripts |-> db_transcripts, exc |-> "none"]
    IN  IF ~IsPair(entry) THEN [nothing EXCEPT !.exc = "ValueError"]
        ELSE LET segment_id == entry[1]
                 result == Deref(entry[2])
             IN  IF ~WsOpen THEN [nothing EXCEPT !.exc = sendexc]
                 ELSE IF "type" \notin DOMAIN result
                 THEN [nothing EXCEPT !.sent = <<result>>, !.exc = "KeyError"]
                 ELSE [sent |-> <<result>>,
                       fwd |-> IF result["type"] = "instruction" THEN <<result>> ELSE <<>>,
                       speakers |-> PersistSpeaker(db_speakers, result),
                       transcripts |-> PersistTranscript(db_transcripts, segment_id, result),
                       exc |-> "none"]

\* result_queue.get() wakes the tasks that wait in put: their items go on
\* the queue in the order in which the tasks came to wait.
Woken(waiting) ==
    [items |-> [k \in DOMAIN waiting |-> waiting[k].item],
     logs |-> [k \in DOMAIN waiting |-> waiting[k].log]]

task_send_result_loop(sendexc) ==
    /\ task["send_result"] = "running"
    /\ disp_pc = "loop"
    /\ result_queue # <<>>
    /\ LET k == GetPos(result_queue)
           entry == result_queue[k]
           it == Iteration(entry, sendexc)
       IN  /\ result_queue' = Without(result_queue, k) \o Woken(in_flight).items
           /\ enq_log' = enq_log \o Woken(in_flight).logs
           /\ in_flight' = <<>>
           /\ client_msgs' = client_msgs \o it.sent
           /\ sent_log' = IF it.sent = <<>> THEN sent_log
                          ELSE Append(sent_log, entry[1])
           /\ trans_out' = trans_out \o it.fwd
           /\ db_speakers' = it.speakers
           /\ db_transcripts' = it.transcripts
           /\ Raise("send_result", it.exc)
    /\ UNCHANGED <<dbvars, session, inputs, sockets, heard, reported, intermediate_result, name_2_id, disp_pc, handler, client,
                   session_id_counter, db_sessions, nrecv>>

\* The session_id the loop of task_send_result gives to the Transcript
\* it builds for a record: the module-level counter as it is at that moment.
TranscriptSessionId == session_id_counter

\* The other connections of the process that have run the setup of their
\* task_send_result.
OthersOpened == session_id_counter - Len(session)

\* Another client connection of the same process runs the setup of its
\* task_send_result: the same code on the same counter and the same tables.
\* Its own tasks have no part in the state of this connection.
OtherConnection ==
    /\ OthersOpened < MaxOthers
    /\ LET wipe == session_id_counter = 0
           sessions == IF wipe THEN {} ELSE db_sessions
           dup == \E r \in sessions : r.session_id = session_id_counter
       IN  /\ db_transcripts' = IF wipe THEN {} ELSE db_transcripts
           /\ db_speakers' = IF wipe THEN {} ELSE db_speakers
           /\ db_sessions' = IF dup THEN sessions ELSE sessions \cup {SessionRow(session_id_counter)}
           /\ session_id_counter' = IF dup THEN session_id_counter ELSE session_id_counter + 1
    /\ UNCHANGED <<dbvars, session, in_flight, inputs, sockets, heard, reported, intermediate_result, name_2_id,
                   result_queue, task, disp_pc, first_exc, handler, client, client_msgs, trans_out,
                   nrecv, enq_log, sent_log>>

\* ------------------------------------------------------------------ handler
\* Sockets that are closed only where WebSocketDisconnect is caught.
ClosedAtExit_InExcept(exc) == IF exc = "WebSocketDisconnect" THEN Sockets ELSE {}

\* The sockets the handler closes on its way out with exception exc ("none":
\* gather returned): the finally clause closes all six, whatever the exit.
ClosedAtExit(exc) == Sockets

\* websocket_asr after asyncio.gather: gather ends with the first exception
\* of a task (or when all six have returned); WebSocketDisconnect is caught,
\* any other exception propagates; the finally clause closes the six
\* sockets, which cancels the receivers waiting on them.  The other tasks
\* are not cancelled.  (Every task has run up to its first await, so
\* task_send_result is past its setup, before gather can end.)
HandlerExit ==
    /\ handler = "gather"
    /\ disp_pc = "loop" \/ task["send_result"] # "running"
    /\ \/ first_exc # "none"
       \/ \A t \in Tasks : task[t] = "returned"
    /\ sockets' = sockets \ ClosedAtExit(first_exc)
    /\ handler' = IF first_exc \in {"none", "WebSocketDisconnect"} THEN "returned" ELSE "raised"
    /\ task' = [t \in Tasks |-> IF t \in Receivers /\ task[t] = "running"
                                THEN "cancelled" ELSE task[t]]
    /\ UNCHANGED <<dbvars, session, in_flight, inputs, heard, reported, intermediate_result, name_2_id, result_queue, disp_pc, first_exc, client,
                   client_msgs, trans_out, session_id_counter, db_sessions,
                   db_speakers, db_transcripts, nrecv, inputs, enq_log, reported, sent_log>>

\* ---------------------------------------------- DatabaseManager (db.py)
\* The table transcripts and the three calls that write it.  A call runs
\* alone, from its first statement to its commit or rollback.  segment_index
\* is a FLOAT: the model counts it in units of 2^-FracBits, and a split whose
\* midpoint is not a whole number of units is beyond that resolution and not
\* taken (a double has 52 such bits).  Times and durations are whole
\* microseconds.  The rows of sessions and session_speakers that the foreign
\* keys refer to exist.
Unit == 2^FracBits
DbSessions == {1, 2}
SessionSpeakers == {1}
SegmentTypes == {"transcript"}
Contents == {<<"a", "b">>}
NewContents == {<<"b">>}
\* The start_time and duration of the rows added: one of a whole span, one
\* of an odd number of microseconds.
Spans == {[start_time |-> 0, duration |-> 4], [start_time |-> 8, duration |-> 3]}
\* Optional arguments: <<>> is None, <<v>> is the value v.
AddIndexes == {<<>>, <<Unit>>}
KeepIndexes == {<<>>, <<2 * Unit>>}
SplitPositions == {-1, 1, 3}
\* The ids a caller may name: those the sequence has given out, and one it
\* has not; the lists of them that merge_transcripts is called with.
SegmentIds == 1..(segment_id_seq + 1)
IdLists == UNION {[1..n -> SegmentIds] : n \in 0..2}

MaxOf(S) == CHOOSE m \in S : \A x \in S : x <= m
MinOf(S) == CHOOSE m \in S : \A x \in S : m <= x
OfSession(rows, session_id) == {r \in rows : r.session_id = session_id}
IndexesOf(rows, session_id) == {r.segment_index : r \in OfSession(rows, session_id)}
WithId(rows, segment_id) == {r \in rows : r.segment_id = segment_id}

\* A table without the constraint.
UniqueOk_None(rows, row) == TRUE

\* UNIQUE(session_id, segment_index): the row can be put next to rows.
UniqueOk(rows, row) ==
    \A r \in rows : ~(r.session_id = row.session_id /\ r.segment_index = row.segment_index)

\* A maximum taken over the whole table.
NextIndex_AllSessions(rows, session_id) ==
    (IF rows = {} THEN 0 ELSE MaxOf({r.segment_index : r \in rows})) + Unit

\* SELECT COALESCE(MAX(segment_index), 0) + 1 ... WHERE session_id = %s
NextIndex(rows, session_id) ==
    (IF IndexesOf(rows, session_id) = {} THEN 0 ELSE MaxOf(IndexesOf(rows, session_id))) + Unit

Touch(rows) == {<<r.session_id, r.segment_index, r.segment_id>> : r \in rows}

\* The record of a call that raised exc.
Failed(op, exc) == [op |-> op, exc |-> exc, result |-> <<>>]

\* The record of a call that raised ValueError with the message msg.
Invalid(op, msg) == [op |-> op, exc |-> "ValueError", msg |-> msg, result |-> <<>>]

\* What a call leaves behind: the table (unchanged after a rollback), the
\* sequence (nextval is not rolled back), the record of the call.
Finish(rows, seq, call) ==
    /\ transcripts' = rows
    /\ segment_id_seq' = seq
    /\ db_call' = call
    /\ nops' = nops + 1
    /\ held' = held \cup Touch(rows)

add_transcript(session_id, session_speaker_id, segment_type, segment_content, start_time, duration, segment_index) ==
    /\ nops < MaxDbOps
    /\ LET index == IF segment_index = <<>> THEN NextIndex(transcripts, session_id)
                    ELSE segment_index[1]
           row == [segment_id |-> segment_id_seq + 1, session_id |-> session_id,
                   session_speaker_id |-> session_speaker_id, segment_index |-> index,
                   segment_type |-> segment_type, segment_content |-> segment_content,
                   start_time |-> start_time, duration |-> duration]
           ok == UniqueOk(transcripts, row)
       IN  Finish(IF ok THEN transcripts \cup {row} ELSE transcripts,
                  segment_id_seq + 1,
                  IF ok THEN [op |-> "add_transcript", session_id |-> session_id,
                              auto |-> segment_index = <<>>, exc |-> "none",
                              result |-> <<row.segment_id>>]
                  ELSE Failed("add_transcript", "UniqueViolation"))
    /\ UNCHANGED <<appvars, spkvars, txvars>>

\* A slice that keeps the whole content.
Slice_Whole(content, split_position) == content

\* content[:split_position] of Python: a negative position counts from the end.
Slice(content, split_position) ==
    LET n == IF split_position >= 0
             THEN (IF split_position < Len(content) THEN split_position ELSE Len(content))
             ELSE (IF Len(content) + split_position > 0 THEN Len(content) + split_position ELSE 0)
    IN  SubSeq(content, 1, n)

\* A ratio that is always one half.
SplitRatio_Half(split_position, original_length) == <<1, 2>>

\* split_position / original_length, or 0.5 for an empty content, as a
\* fraction <<numerator, denominator>>.
SplitRatio(split_position, original_length) ==
    IF original_length > 0 THEN <<split_position, original_length>> ELSE <<1, 2>>

\* timedelta * float: the product in microseconds, rounded half to even.
RoundHalfEven(n, d) ==
    LET q == n \div d
        r == n - q * d
    IN  IF 2 * r < d THEN q
        ELSE IF 2 * r > d THEN q + 1
        ELSE IF q % 2 = 0 THEN q ELSE q + 1

\* A midpoint taken towards the next lower index.
NewIndex_Lower(rows, original) ==
    LET lower == {i \in IndexesOf(rows, original.session_id) : i < original.segment_index}
    IN  IF lower # {} THEN (original.segment_index + MaxOf(lower)) \div 2
        ELSE original.segment_index - Unit

\* The index of the new row of a split: halfway between the original and the
\* next higher index of the session, or the original's plus 1.
NewIndex(rows, original) ==
    LET higher == {i \in IndexesOf(rows, original.session_id) : i > original.segment_index}
    IN  IF higher # {} THEN (original.segment_index + MinOf(higher)) \div 2
        ELSE original.segment_index + Unit

\* The midpoint is a whole number of units.
Resolved(rows, original) ==
    LET higher == {i \in IndexesOf(rows, original.session_id) : i > original.segment_index}
    IN  higher # {} => (original.segment_index + MinOf(higher)) % 2 = 0

\* An update that moves the original as well.
SplitUpdate_Moved(original, truncated_content, updated_duration) ==
    [original EXCEPT !.segment_content = truncated_content, !.duration = updated_duration,
                     !.start_time = @ + updated_duration]

\* UPDATE transcripts SET segment_content = %s, duration = %s WHERE segment_id = %s
SplitUpdate(original, truncated_content, updated_duration) ==
    [original EXCEPT !.segment_content = truncated_content, !.duration = updated_duration]

\* What a call of split_transcript makes of the table rows and the sequence
\* seq: the table and the sequence it leaves, and the record of the call.
SplitResult(rows, seq, segment_id, split_position, new_segment_content) ==
    LET call == [op |-> "split_transcript", segment_id |-> segment_id,
                 split_position |-> split_position]
    IN  IF WithId(rows, segment_id) = {}
        THEN [rows |-> rows, seq |-> seq, call |-> Invalid("split_transcript", "not found")]
        ELSE LET original == CHOOSE r \in WithId(rows, segment_id) : TRUE
                 new_index == NewIndex(rows, original)
                 ratio == SplitRatio(split_position, Len(original.segment_content))
                 new_duration == RoundHalfEven(original.duration * (ratio[2] - ratio[1]), ratio[2])
                 updated_duration == RoundHalfEven(original.duration * ratio[1], ratio[2])
                 updated == SplitUpdate(original,
                                        Slice(original.segment_content, split_position),
                                        updated_duration)
                 rows1 == (rows \ {original}) \cup {updated}
                 row == [segment_id |-> seq + 1,
                         session_id |-> original.session_id,
                         session_speaker_id |-> original.session_speaker_id,
                         segment_index |-> new_index,
                         segment_type |-> original.segment_type,
                         segment_content |-> new_segment_content,
                         start_time |-> original.start_time + updated_duration,
                         duration |-> new_duration]
                 ok == UniqueOk(rows1, row)
             IN  [rows |-> IF ok THEN rows1 \cup {row} ELSE rows,
                  seq |-> seq + 1,
                  call |-> IF ok THEN call @@ [exc |-> "none",
                                               result |-> <<segment_id, row.segment_id>>]
                           ELSE Failed("split_transcript", "UniqueViolation")]

\* The split of segment_id is within the resolution of the model.
Splittable(rows, segment_id) ==
    \A original \in WithId(rows, segment_id) : Resolved(rows, original)

split_transcript(segment_id, split_position, new_segment_content) ==
    /\ nops < MaxDbOps
    /\ Splittable(transcripts, segment_id)
    /\ LET res == SplitResult(transcripts, segment_id_seq, segment_id, split_position,
                              new_segment_content)
       IN  Finish(res.rows, res.seq, res.call)
    /\ UNCHANGED <<appvars, spkvars, txvars>>

\* The segments in the order in which their ids were passed.
SortByIndex_AsPassed(segments) == segments

\* segments.sort(key=segment_index): a stable sort.
RECURSIVE SortByIndex(_)
SortByIndex(segments) ==
    IF Len(segments) <= 1 THEN segments
    ELSE LET rest == SortByIndex(SubSeq(segments, 1, Len(segments) - 1))
             last == segments[Len(segments)]
             k == Cardinality({j \in DOMAIN rest : rest[j].segment_index <= last.segment_index})
         IN  SubSeq(rest, 1, k) \o <<last>> \o SubSeq(rest, k + 1, Len(rest))

RECURSIVE JoinContent(_)
JoinContent(segments) ==
    IF segments = <<>> THEN <<>>
    ELSE Head(segments).segment_content \o JoinContent(Tail(segments))

RECURSIVE TotalDuration(_)
TotalDuration(segments) ==
    IF segments = <<>> THEN 0 ELSE Head(segments).duration + TotalDuration(Tail(segments))

\* A merge that does not look at the sessions.
SameSession_Unchecked(segments) == TRUE

\* all(seg["session_id"] == session_id for seg in segments)
SameSession(segments) ==
    \A k \in DOMAIN segments : segments[k].session_id = segments[1].session_id

\* A merge that deletes nothing.
Deleted_None(segments) == {}

\* for seg in segments[1:]: DELETE FROM transcripts WHERE segment_id = %s
Deleted(segments) == {segments[k].segment_id : k \in 2..Len(segments)}

\* An update that keeps the first segment's start_time.
MergeUpdate_FirstStart(first, segments, keep_index) ==
    [first EXCEPT !.segment_content = JoinContent(segments),
                  !.duration = TotalDuration(segments),
                  !.segment_index = keep_index]

\* UPDATE transcripts SET segment_content, start_time, duration,
\* segment_index, session_speaker_id WHERE segment_id = first's
MergeUpdate(first, segments, keep_index) ==
    [first EXCEPT !.segment_content = JoinContent(segments),
                  !.start_time = MinOf({segments[k].start_time : k \in DOMAIN segments}),
                  !.duration = TotalDuration(segments),
                  !.segment_index = keep_index,
                  !.session_speaker_id = segments[1].session_speaker_id]

\* What a call of merge_transcripts makes of the table rows: the table it
\* leaves and the record of the call.
MergeResult(rows, segment_ids, keep_index) ==
    LET call == [op |-> "merge_transcripts", segment_ids |-> segment_ids,
                 keep_index |-> keep_index]
        invalid(msg) == [rows |-> rows, call |-> Invalid("merge_transcripts", msg)]
        failed(exc) == [rows |-> rows, call |-> Failed("merge_transcripts", exc)]
    IN  IF Len(segment_ids) < 2 THEN invalid("at least two")
        ELSE IF \E k \in DOMAIN segment_ids : WithId(rows, segment_ids[k]) = {}
        THEN invalid("not found")
        ELSE LET segments == SortByIndex(
                     [k \in DOMAIN segment_ids |->
                         CHOOSE r \in WithId(rows, segment_ids[k]) : TRUE])
                 first == segments[1]
                 keep == IF keep_index = <<>> THEN first.segment_index ELSE keep_index[1]
                 rows1 == {r \in rows : r.segment_id \notin Deleted(segments)}
                 merged == MergeUpdate(first, segments, keep)
                 others == {r \in rows1 : r.segment_id # first.segment_id}
             IN  IF ~SameSession(segments) THEN invalid("different sessions")
                 ELSE IF WithId(rows1, first.segment_id) = {} THEN failed("TypeError")
                 ELSE IF ~UniqueOk(others, merged) THEN failed("UniqueViolation")
                 ELSE [rows |-> others \cup {merged},
                       call |-> call @@ [exc |-> "none", result |-> <<first.segment_id>>]]

merge_transcripts(segment_ids, keep_index) ==
    /\ nops < MaxDbOps
    /\ LET res == MergeResult(transcripts, segment_ids, keep_index)
       IN  Finish(res.rows, segment_id_seq, res.call)
    /\ UNCHANGED <<appvars, spkvars, txvars>>

DbNext ==
    \/ \E session_id \in DbSessions, session_speaker_id \in SessionSpeakers,
          segment_type \in SegmentTypes, segment_content \in Contents,
          span \in Spans, segment_index \in AddIndexes :
            add_transcript(session_id, session_speaker_id, segment_type, segment_content,
                           span.start_time, span.duration, segment_index)
    \/ \E segment_id \in SegmentIds, split_position \in SplitPositions,
          new_segment_content \in NewContents :
            split_transcript(segment_id, split_position, new_segment_content)
    \/ \E segment_ids \in IdLists, keep_index \in KeepIndexes :
            merge_transcripts(segment_ids, keep_index)

\* ------------------------------------------------------- session_speakers
\* The table session_speakers and the call that writes it; the call runs
\* alone.  The rows of sessions and speakers that the foreign keys refer to
\* exist.
SpeakerIds == {1, 2}
LocalIds == {<<>>, <<1>>}

\* SELECT COALESCE(MAX(local_speaker_id), 0) + 1 ... WHERE session_id = %s
NextLocal(rows, session_id) ==
    LET locals == {r.local_speaker_id : r \in {x \in rows : x.session_id = session_id}}
    IN  (IF locals = {} THEN 0 ELSE MaxOf(locals)) + 1

\* UNIQUE(session_id, local_speaker_id), the only constraint on the pairs.
BindingOk(rows, row) ==
    \A r \in rows : ~(r.session_id = row.session_id
                      /\ r.local_speaker_id = row.local_speaker_id)

add_speaker_to_session(session_id, speaker_id, local_speaker_id) ==
    /\ nops < MaxDbOps
    /\ LET local == IF local_speaker_id = <<>> THEN NextLocal(session_speakers, session_id)
                    ELSE local_speaker_id[1]
           row == [id |-> session_speakers_seq + 1, session_id |-> session_id,
                   speaker_id |-> speaker_id, local_speaker_id |-> local]
           ok == BindingOk(session_speakers, row)
       IN  /\ session_speakers' = IF ok THEN session_speakers \cup {row} ELSE session_speakers
           /\ session_speakers_seq' = session_speakers_seq + 1
           /\ db_call' = IF ok THEN [op |-> "add_speaker_to_session", session_id |-> session_id,
                                     speaker_id |-> speaker_id,
                                     auto |-> local_speaker_id = <<>>,
                                     exc |-> "none", result |-> <<row.id>>]
                         ELSE Failed("add_speaker_to_session", "UniqueViolation")
           /\ nops' = nops + 1
    /\ UNCHANGED <<appvars, storevars, held, txvars>>

SpeakerNext ==
    \E session_id \in DbSessions, speaker_id \in SpeakerIds, local_speaker_id \in LocalIds :
        add_speaker_to_session(session_id, speaker_id, local_speaker_id)

\* ------------------------------------------------------------ transactions
\* The same calls statement by statement, two clients at a time, each on a
\* connection of its own, and readers.  PostgreSQL runs a transaction at
\* READ COMMITTED: a statement sees what was committed when it starts and
\* what its own transaction wrote; an UPDATE or DELETE of a row that another
\* open transaction has written waits for that transaction to end, and so
\* does a write of a (session_id, segment_index) that another open
\* transaction has written; a waiting statement is a step that cannot be
\* taken yet.  tx[c] holds the call of client c, the local variables of its
\* code and what it wrote: dels, the ids deleted, and puts, the rows
\* inserted or updated.
Clients == {1, 2}

\* The table when the clients start: three rows of session 1, at the indexes
\* 1.0, 2.0 and 3.0.
Stored ==
    {[segment_id |-> k, session_id |-> 1, session_speaker_id |-> 1,
      segment_index |-> k * Unit, segment_type |-> "transcript",
      segment_content |-> <<"a", "b">>, start_time |-> 8 * (k - 1), duration |-> 4] :
        k \in 1..3}

\* The calls a client makes.
TxCalls ==
    {[op |-> "split_transcript", segment_id |-> i, split_position |-> 1,
      new_segment_content |-> <<"b">>] : i \in {1, 2}}
    \cup {[op |-> "merge_transcripts", segment_ids |-> l, keep_index |-> <<>>] :
            l \in {<<1, 2>>, <<2, 1>>, <<3, 1, 2>>, <<1, 1>>, <<1, 2, 2>>}}
    \cup {[op |-> "merge_transcripts", segment_ids |-> <<2, 3>>, keep_index |-> <<3 * Unit>>]}
    \cup {[op |-> "add_transcript", session_id |-> 1, session_speaker_id |-> 1,
           segment_type |-> "transcript", segment_content |-> <<"a", "b">>,
           start_time |-> 8, duration |-> 3, segment_index |-> <<>>]}

NoTx ==
    [pc |-> "idle", call |-> [op |-> "none"], original |-> <<>>, new_index |-> 0,
     segments |-> <<>>, k |-> 1, dels |-> {}, puts |-> {}, result |-> <<>>, exc |-> "none"]

\* What the transaction t sees of the committed table: its own writes in
\* place of the rows they replace.
Written(t) == t.dels \cup {p.segment_id : p \in t.puts}
ViewOf(t, committed) == {r \in committed : r.segment_id \notin Written(t)} \cup t.puts
View(c) == ViewOf(tx[c], transcripts)

\* Another open transaction has written the row, or a row with the key of
\* row: the statement waits.
RowLocked(c, segment_id) == \E d \in Clients \ {c} : segment_id \in Written(tx[d])
SameKey(r, row) == r.session_id = row.session_id /\ r.segment_index = row.segment_index
KeyTaken(c, row) ==
    \E d \in Clients \ {c} :
        \/ \E p \in tx[d].puts : SameKey(p, row)
        \/ \E r \in transcripts : r.segment_id \in Written(tx[d]) /\ SameKey(r, row)

\* A connection in autocommit mode: every statement is committed at once.
Visible_Autocommit(committed, view) == view

\* What the other connections see after a statement of a transaction whose
\* view of the table is view: async with conn.transaction() (and a
\* connection that is not in autocommit mode) shows nothing before the
\* commit.
Visible(committed, view) == committed

\* A statement of client c has run and leaves its transaction as t.
Wrote(c, t) ==
    /\ tx' = [tx EXCEPT ![c] = t]
    /\ transcripts' = Visible(transcripts, ViewOf(t, transcripts))

\* The call raises exc: the transaction is rolled back.
Stop(t, exc) == [t EXCEPT !.pc = "done", !.exc = exc, !.dels = {}, !.puts = {}]

FirstStatement(call) ==
    IF call.op = "split_transcript" THEN "select_original"
    ELSE IF call.op = "merge_transcripts" THEN "select_segment"
    ELSE IF call.segment_index = <<>> THEN "select_max" ELSE "insert"

\* Client c makes the call: merge_transcripts refuses a list of fewer than
\* two ids before it takes a connection.
Begin(c, call) ==
    /\ tx[c].pc = "idle"
    /\ tx' = [tx EXCEPT ![c] =
                IF call.op = "merge_transcripts" /\ Len(call.segment_ids) < 2
                THEN [NoTx EXCEPT !.pc = "done", !.call = call, !.exc = "ValueError"]
                ELSE [NoTx EXCEPT !.pc = FirstStatement(call), !.call = call,
                                  !.new_index = IF call.op = "add_transcript"
                                                   /\ call.segment_index # <<>>
                                                THEN call.segment_index[1] ELSE 0]]
    /\ UNCHANGED <<appvars, storevars, callvars, spkvars, observed>>

\* split_transcript: SELECT * FROM transcripts WHERE segment_id = %s
split_select_original(c) ==
    /\ tx[c].pc = "select_original"
    /\ LET t == tx[c]
           found == WithId(View(c), t.call.segment_id)
       IN  tx' = [tx EXCEPT ![c] =
                    IF found = {} THEN Stop(t, "ValueError")
                    ELSE [t EXCEPT !.original = <<CHOOSE r \in found : TRUE>>,
                                   !.pc = "select_next"]]
    /\ UNCHANGED <<appvars, storevars, callvars, spkvars, observed>>

\* split_transcript: the SELECT of the next higher index, and new_index.
split_select_next(c) ==
    /\ tx[c].pc = "select_next"
    /\ Resolved(View(c), tx[c].original[1])
    /\ tx' = [tx EXCEPT ![c].new_index = NewIndex(View(c), tx[c].original[1]),
                        ![c].pc = "update_original"]
    /\ UNCHANGED <<appvars, storevars, callvars, spkvars, observed>>

\* split_transcript: the UPDATE of the original, with the content and the
\* duration computed from the row as it was read.
split_update(c) ==
    /\ tx[c].pc = "update_original"
    /\ ~RowLocked(c, tx[c].call.segment_id)
    /\ LET t == tx[c]
           original == t.original[1]
           ratio == SplitRatio(t.call.split_position, Len(original.segment_content))
           updated_duration == RoundHalfEven(original.duration * ratio[1], ratio[2])
           found == WithId(View(c), t.call.segment_id)
           updated == {SplitUpdate(r, Slice(original.segment_content, t.call.split_position),
                                   updated_duration) : r \in found}
       IN  Wrote(c, [t EXCEPT !.puts = (@ \ found) \cup updated, !.pc = "insert_new"])
    /\ UNCHANGED <<appvars, segment_id_seq, callvars, spkvars, observed>>

\* split_transcript: the INSERT of the new row.
split_insert(c) ==
    /\ tx[c].pc = "insert_new"
    /\ LET t == tx[c]
           original == t.original[1]
           ratio == SplitRatio(t.call.split_position, Len(original.segment_content))
           new_duration == RoundHalfEven(original.duration * (ratio[2] - ratio[1]), ratio[2])
           updated_duration == RoundHalfEven(original.duration * ratio[1], ratio[2])
           row == [segment_id |-> segment_id_seq + 1,
                   session_id |-> original.session_id,
                   session_speaker_id |-> original.session_speaker_id,
                   segment_index |-> t.new_index,
                   segment_type |-> original.segment_type,
                   segment_content |-> t.call.new_segment_content,
                   start_time |-> original.start_time + updated_duration,
                   duration |-> new_duration]
       IN  /\ ~KeyTaken(c, row)
           /\ Wrote(c, IF UniqueOk(View(c), row)
                       THEN [t EXCEPT !.puts = @ \cup {row},
                                      !.result = <<t.call.segment_id, row.segment_id>>,
                                      !.pc = "commit"]
                       ELSE Stop(t, "UniqueViolation"))
    /\ segment_id_seq' = segment_id_seq + 1
    /\ UNCHANGED <<appvars, callvars, spkvars, observed>>

\* merge_transcripts: the SELECT of the next id of the list; after the last
\* one the rows are sorted and their sessions compared.
merge_select(c) ==
    /\ tx[c].pc = "select_segment"
    /\ LET t == tx[c]
           found == WithId(View(c), t.call.segment_ids[t.k])
           segments == Append(t.segments, CHOOSE r \in found : TRUE)
           sorted == SortByIndex(segments)
       IN  tx' = [tx EXCEPT ![c] =
                    IF found = {} THEN Stop(t, "ValueError")
                    ELSE IF t.k < Len(t.call.segment_ids)
                    THEN [t EXCEPT !.segments = segments, !.k = @ + 1]
                    ELSE IF ~SameSession(sorted) THEN Stop(t, "ValueError")
                    ELSE [t EXCEPT !.segments = sorted, !.k = 2, !.pc = "delete_segment"]]
    /\ UNCHANGED <<appvars, storevars, callvars, spkvars, observed>>

\* merge_transcripts: the DELETE of the next of segments[1:].
merge_delete(c) ==
    /\ tx[c].pc = "delete_segment"
    /\ LET t == tx[c]
           segment_id == t.segments[t.k].segment_id
           found == IF segment_id \in Deleted(t.segments) THEN WithId(View(c), segment_id)
                    ELSE {}
       IN  /\ ~RowLocked(c, segment_id)
           /\ Wrote(c, [t EXCEPT !.dels = @ \cup {r.segment_id : r \in found},
                                 !.puts = @ \ found,
                                 !.k = @ + 1,
                                 !.pc = IF t.k < Len(t.segments) THEN "delete_segment"
                                        ELSE "update_first"])
    /\ UNCHANGED <<appvars, segment_id_seq, callvars, spkvars, observed>>

\* merge_transcripts: the UPDATE of the first segment ... RETURNING
\* segment_id; fetchone() is None when no row was updated.
merge_update(c) ==
    /\ tx[c].pc = "update_first"
    /\ LET t == tx[c]
           first == t.segments[1]
           keep == IF t.call.keep_index = <<>> THEN first.segment_index
                   ELSE t.call.keep_index[1]
           found == WithId(View(c), first.segment_id)
           target == CHOOSE r \in found : TRUE
           merged == MergeUpdate(target, t.segments, keep)
       IN  /\ ~RowLocked(c, first.segment_id)
           /\ (found # {} /\ ~SameKey(target, merged)) => ~KeyTaken(c, merged)
           /\ Wrote(c, IF found = {} THEN Stop(t, "TypeError")
                       ELSE IF ~UniqueOk(View(c) \ found, merged)
                       THEN Stop(t, "UniqueViolation")
                       ELSE [t EXCEPT !.puts = (@ \ found) \cup {merged},
                                      !.result = <<first.segment_id>>,
                                      !.pc = "commit"])
    /\ UNCHANGED <<appvars, segment_id_seq, callvars, spkvars, observed>>

\* add_transcript: SELECT COALESCE(MAX(segment_index), 0) + 1
add_select_max(c) ==
    /\ tx[c].pc = "select_max"
    /\ tx' = [tx EXCEPT ![c].new_index = NextIndex(View(c), tx[c].call.session_id),
                        ![c].pc = "insert"]
    /\ UNCHANGED <<appvars, storevars, callvars, spkvars, observed>>

\* add_transcript: the INSERT.
add_insert(c) ==
    /\ tx[c].pc = "insert"
    /\ LET t == tx[c]
           row == [segment_id |-> segment_id_seq + 1, session_id |-> t.call.session_id,
                   session_speaker_id |-> t.call.session_speaker_id,
                   segment_index |-> t.new_index,
                   segment_type |-> t.call.segment_type,
                   segment_content |-> t.call.segment_content,
                   start_time |-> t.call.start_time, duration |-> t.call.duration]
       IN  /\ ~KeyTaken(c, row)
           /\ Wrote(c, IF UniqueOk(View(c), row)
                       THEN [t EXCEPT !.puts = @ \cup {row}, !.result = <<row.segment_id>>,
                                      !.pc = "commit"]
                       ELSE Stop(t, "UniqueViolation"))
    /\ segment_id_seq' = segment_id_seq + 1
    /\ UNCHANGED <<appvars, callvars, spkvars, observed>>

\* The call returns: the transaction is committed and the connection goes
\* back to the pool.
Commit(c) ==
    /\ tx[c].pc = "commit"
    /\ transcripts' = View(c)
    /\ tx' = [tx EXCEPT ![c].pc = "done", ![c].dels = {}, ![c].puts = {}]
    /\ UNCHANGED <<appvars, segment_id_seq, callvars, spkvars, observed>>

\* The readers: one SELECT each, on a connection of their own.
get_session_transcripts(session_id) ==
    /\ observed' = [call |-> "get_session_transcripts", session_id |-> session_id,
                    rows |-> OfSession(transcripts, session_id)]
    /\ UNCHANGED <<appvars, storevars, callvars, spkvars, tx>>

get_transcript(segment_id) ==
    /\ observed' = [call |-> "get_transcript", segment_id |-> segment_id,
                    rows |-> WithId(transcripts, segment_id)]
    /\ UNCHANGED <<appvars, storevars, callvars, spkvars, tx>>

TxNext ==
    \/ \E c \in Clients, call \in TxCalls : Begin(c, call)
    \/ \E c \in Clients : split_select_original(c)
    \/ \E c \in Clients : split_select_next(c)
    \/ \E c \in Clients : split_update(c)
    \/ \E c \in Clients : split_insert(c)
    \/ \E c \in Clients : merge_select(c)
    \/ \E c \in Clients : merge_delete(c)
    \/ \E c \in Clients : merge_update(c)
    \/ \E c \in Clients : add_select_max(c)
    \/ \E c \in Clients : add_insert(c)
    \/ \E c \in Clients : Commit(c)
    \/ \E session_id \in DbSessions : get_session_transcripts(session_id)
    \/ \E segment_id \in 1..segment_id_seq : get_transcript(segment_id)

\* ------------------------------------------------------------ specification
StartFrom(in, rows, sessions) ==
    /\ inputs = in
    /\ intermediate_result = <<>>
    /\ name_2_id = [x \in {"Assistant", "Unknown Speaker"} |->
                        IF x = "Assistant" THEN 0 ELSE -1]
    /\ result_queue = <<>>
    /\ task = [t \in Tasks |-> "running"]
    /\ disp_pc = "start"
    /\ first_exc = "none"
    /\ handler = "gather"
    /\ client = "connected"
    /\ client_msgs = <<>>
    /\ trans_out = <<>>
    /\ session_id_counter = 0
    /\ db_sessions = sessions
    /\ db_speakers = {}
    /\ db_transcripts = {}
    /\ nrecv = 0
    /\ enq_log = <<>>
    /\ reported = {}
    /\ sent_log = <<>>
    /\ sockets = Sockets
    /\ heard = <<>>
    /\ in_flight = <<>>
    /\ transcripts = rows
    /\ segment_id_seq = Cardinality(rows)
    /\ db_call = [op |-> "none"]
    /\ nops = 0
    /\ held = Touch(rows)
    /\ session = <<>>
    /\ session_speakers = {}
    /\ session_speakers_seq = 0
    /\ tx = [c \in Clients |-> NoTx]
    /\ observed = <<>>

\* A process and a database that have just started; the database with the
\* rows Stored.
StartOn(in, rows) == StartFrom(in, rows, {})
Start(in) == StartOn(in, {})

\* The process starts again on the database an earlier run of it has left:
\* two connections of that run have added their session rows.
EarlierSessions == {SessionRow(0), SessionRow(1)}
InitRestart == StartFrom(SingleInputs, {}, EarlierSessions)
Init == Start(VariedInputs)
InitTx == StartOn(VariedInputs, Stored)
InitDeep == Start(FixedInputs)
InitSingle == Start(SingleInputs)
InitMerge == Start(MergeInputs)

Next ==
    \/ \E idx \in inputs.segs, text \in inputs.texts, finished \in inputs.fins :
            task_recv_asr(idx, text, finished)
    \/ \E idx \in inputs.segs, name \in inputs.names, finished \in inputs.fins :
            task_recv_sid(idx, name, finished)
    \/ \E idx \in inputs.segs, type \in inputs.types, finished \in inputs.fins :
            task_recv_kws(idx, type, finished)
    \/ \E response \in AgentResponses : task_recv_agent(response)
    \/ task_send_pcm_end
    \/ ClientDisconnect
    \/ task_send_result_start
    \/ \E sendexc \in SendFailures : task_send_result_loop(sendexc)
    \/ HandlerExit

Spec == Init /\ [][Next]_vars
DeepSpec == InitDeep /\ [][Next]_vars
SingleSpec == InitSingle /\ [][Next]_vars
MergeSpec == InitMerge /\ [][Next]_vars

\* The connection among other connections of the process.
SharedNext == Next \/ OtherConnection
SharedSpec == Init /\ [][SharedNext]_vars
RestartSpec == InitRestart /\ [][SharedNext]_vars

\* The DatabaseManager on its own: the calls of its clients, one at a time.
DbSpec == Init /\ [][DbNext]_vars
SpeakerSpec == Init /\ [][SpeakerNext]_vars

\* The DatabaseManager with two clients whose calls interleave, and readers.
TxSpec == InitTx /\ [][TxNext]_vars

\* The event loop runs every task that can run: the dispatcher and the
\* handler are not starved.  What the client and the annotators send is not
\* under the program's control.
FairSpec ==
    /\ Spec
    /\ WF_vars(task_send_result_start)
    /\ WF_vars(\E sendexc \in SendFailures : task_send_result_loop(sendexc))
    /\ WF_vars(HandlerExit)

FairDeepSpec ==
    /\ DeepSpec
    /\ WF_vars(task_send_result_start)
    /\ WF_vars(\E sendexc \in SendFailures : task_send_result_loop(sendexc))
    /\ WF_vars(HandlerExit)

\* =================================================================== claims
\* How often a record of segment i was put on the queue.
TimesEnqueued(i) ==
    Cardinality({k \in DOMAIN enq_log : enq_log[k].kind = "seg" /\ enq_log[k].idx = i})

AgentEnqueued == \E k \in DOMAIN enq_log : enq_log[k].kind = "agent"

ReceiverFailed == \E t \in Receivers : task[t] = "failed"

AllFlagsTrue(ir) == Flags \subseteq DOMAIN ir /\ \A f \in Flags : ir[f]

\* The step takes the head of the queue.
Dequeues == result_queue # <<>> /\ Len(result_queue') = Len(result_queue) - 1

\* C1: whatever partials arrive for a segment id, also after its record was
\* enqueued, a record of that id is put on the emission queue once, never a
\* second time.
C1_EnqueuedOnce == \A i \in Segs : TimesEnqueued(i) <= 1

\* C2: a record is put on the queue only when asr_finished, sid_finished and
\* kws_finished are all true for its id, each annotator having reported
\* finished=true for it; and it is put there in the step that makes the last
\* flag true, so no record stays in the map with the three flags true.
C2_EnqueuedWhenAllFinished ==
    /\ \A k \in DOMAIN enq_log :
          enq_log[k].kind = "seg" =>
              /\ \A f \in Flags : enq_log[k].flags[f]
              /\ \A a \in Kinds : <<enq_log[k].idx, a>> \in reported
    /\ \A i \in DOMAIN intermediate_result : ~AllFlagsTrue(intermediate_result[i])

\* One segment was enqueued while the other waits with two flags true and the
\* third false.
C2_Witness ==
    /\ TimesEnqueued(1) = 1
    /\ 2 \in DOMAIN intermediate_result
    /\ Flags \subseteq DOMAIN intermediate_result[2]
    /\ intermediate_result[2]["asr_finished"]
    /\ intermediate_result[2]["sid_finished"]
    /\ ~intermediate_result[2]["kws_finished"]
    /\ TimesEnqueued(2) = 0

\* C3: no segment id whose record was emitted is still a key of the
\* accumulator map.
C3_EmittedLeavesMap ==
    \A i \in Segs : TimesEnqueued(i) >= 1 => i \notin DOMAIN intermediate_result

\* C4: the client receives the records in the order in which they were put
\* on the queue, not in segment id order: the k-th message sent is the k-th
\* record enqueued.
C4_SentInCompletionOrder ==
    /\ Len(sent_log) <= Len(enq_log)
    /\ \A k \in DOMAIN sent_log :
          enq_log[k].kind = "seg" /\ enq_log[k].idx = sent_log[k]

\* Segment 2 completed before segment 1, and the client got segment 2 first.
C4_Witness ==
    /\ Len(enq_log) = 2
    /\ enq_log[1].kind = "seg" /\ enq_log[1].idx = 2
    /\ enq_log[2].kind = "seg" /\ enq_log[2].idx = 1
    /\ sent_log = <<2>>
    /\ Len(client_msgs) = 1

\* C5: while the client stays connected the dispatcher keeps draining the
\* queue: in the end every record the accumulator enqueued has been sent to
\* the client, k messages for k records.  (Runs in which the agent enqueued
\* a record or a receiver failed are left aside.)
C5_EveryRecordSent ==
    <>[](\/ client = "disconnected"
         \/ AgentEnqueued
         \/ ReceiverFailed
         \/ Len(client_msgs) = Len(enq_log))

\* C6: a record the agent channel put on the queue is, when the dispatcher
\* takes it, sent to the client as one message.
C6_AgentRecordSent ==
    [][(Dequeues /\ WsOpen /\ ~IsPair(Head(result_queue)))
          => client_msgs' = Append(client_msgs, Head(result_queue))]_vars

\* C7: the dispatcher forwards the record it takes from the queue to the
\* agent if and only if its segment_type is "instruction".
C7_InstructionForwarded ==
    [][(Dequeues /\ WsOpen /\ IsPair(Head(result_queue)))
          => LET result == Deref(Head(result_queue)[2])
             IN  IF result["segment_type"] = "instruction"
                 THEN trans_out' = Append(trans_out, result)
                 ELSE trans_out' = trans_out]_vars

\* C8: every record sent to the client is appended to the transcript store
\* in the same iteration: k records dispatched, k segments stored.
C8_DispatchedIsStored == Cardinality(db_transcripts) = Len(client_msgs)

\* C9: once a record was sent to the client, whatever becomes of its append
\* to the store, the dispatch loop does not terminate: the records enqueued
\* after it can still be dispatched.
C9_LoopSurvives ==
    [][Len(client_msgs') = Len(client_msgs) + 1 => task'["send_result"] = "running"]_vars

\* C10: after the zero-length chunk all six tasks terminate and the handler
\* returns.
C10_EndOfInputTerminates ==
    (task["send_pcm"] = "returned")
        ~> (handler = "returned" /\ \A t \in Tasks : task[t] # "running")

\* C11: once the handler has exited, no receiver and no dispatcher of the
\* session takes a further step: nothing is received, merged, enqueued,
\* dequeued or sent.
C11_NoStepAfterExit ==
    [][handler # "gather" =>
          /\ intermediate_result' = intermediate_result
          /\ result_queue' = result_queue
          /\ client_msgs' = client_msgs
          /\ nrecv' = nrecv]_vars

\* C12: whichever way the handler exits, with WebSocketDisconnect caught or
\* with the exception of a task propagating, the six sockets are closed.
C12_SocketsClosedOnExit == handler # "gather" => sockets = {}

\* The handler has exited with an exception that is not WebSocketDisconnect.
C12_Witness ==
    /\ handler = "raised"
    /\ first_exc \notin {"none", "WebSocketDisconnect"}
    /\ sockets = {}

\* C13: every message the client received has exactly the keys speaker_id,
\* speaker_name, segment_type and segment_content, none of the three flags.
C13_MessageHasNoFlags ==
    \A k \in DOMAIN client_msgs :
        DOMAIN client_msgs[k] = {"speaker_id", "speaker_name", "segment_type", "segment_content"}

\* C14: the record of a segment id, also when it is emitted, has as content
\* the text of the recognizer partials of that id in arrival order, as
\* speaker_name the last speaker name reported, as segment_type the last type
\* reported; what no annotator reported is the default, and the unknown
\* speaker has the id -1.
C14_RecordIsMerged ==
    \A i \in DOMAIN intermediate_result :
        LET r == intermediate_result[i]
            h == Hear(heard, i)
        IN  /\ r["segment_content"] = h.content
            /\ r["speaker_name"] = h.name
            /\ r["segment_type"] = h.type
            /\ h.name = "Unknown Speaker" => r["speaker_id"] = -1

\* The emitted record holds two partials' text in arrival order, after the
\* speaker and the type were each reported twice with different values.
C14_Witness ==
    /\ TimesEnqueued(1) = 1
    /\ nrecv = 5
    /\ intermediate_result[1]["segment_content"] = <<"b", "a">>
    /\ intermediate_result[1]["segment_type"] = "instruction"
    /\ intermediate_result[1]["speaker_name"] = "speaker_1"
    /\ name_2_id["speaker_1"] = 3

Injective(f) == \A a, b \in DOMAIN f : f[a] = f[b] => a = b
MaxId(f) == CHOOSE m \in {f[a] : a \in DOMAIN f} : \A a \in DOMAIN f : f[a] <= m

Succeeded(op) == nops' = nops + 1 /\ db_call'.op = op /\ db_call'.exc = "none"

\* C16: add_transcript without an index gives the new row the highest index
\* of its session plus 1, or 1 when the session has no row: the row sorts
\* after every row of the session, and the rows of other sessions do not
\* count.
C16_AppendAfterMax ==
    [][(Succeeded("add_transcript") /\ db_call'.auto) =>
          LET new == CHOOSE r \in transcripts' : r.segment_id = db_call'.result[1]
              before == IndexesOf(transcripts, db_call'.session_id)
          IN  /\ new.session_id = db_call'.session_id
              /\ new.segment_index = IF before = {} THEN Unit ELSE MaxOf(before) + Unit
              /\ \A i \in before : i < new.segment_index]_vars

\* The first row of session 2 was appended at index 1 while session 1 has
\* rows at 1 and 2.
C16_Witness ==
    /\ db_call.op = "add_transcript" /\ db_call.exc = "none" /\ db_call.auto
    /\ db_call.session_id = 2
    /\ IndexesOf(transcripts, 2) = {Unit}
    /\ \E r \in transcripts : r.segment_id = db_call.result[1] /\ r.segment_index = Unit
    /\ IndexesOf(transcripts, 1) = {Unit, 2 * Unit}

\* C17: no two rows of a session have the same segment_index, whatever
\* calls were made.
C17_IndexUnique ==
    \A r1, r2 \in transcripts :
        (r1.session_id = r2.session_id /\ r1.segment_index = r2.segment_index) => r1 = r2

\* A row made by a split is there, and an add_transcript at the index 1,
\* which is in use, has just been refused.
C17_Witness ==
    /\ db_call.op = "add_transcript" /\ db_call.exc = "UniqueViolation"
    /\ \E r \in transcripts : r.segment_index % Unit # 0
    /\ \E r \in transcripts : r.segment_index = Unit

\* C18: an index that a segment of a session once held is never given to
\* another segment of that session, also after a merge deleted the first.
C18_IndexNeverReused ==
    \A a, b \in held : (a[1] = b[1] /\ a[2] = b[2]) => a[3] = b[3]

\* C19: a successful split gives the new row the midpoint between the
\* original's index and the next higher index of the session, or the
\* original's index plus 1 when there is none: the new row sorts after the
\* original and before the original's former successor.
C19_SplitIndexIsMidpoint ==
    [][Succeeded("split_transcript") =>
          LET original == CHOOSE r \in transcripts : r.segment_id = db_call'.segment_id
              new == CHOOSE r \in transcripts' : r.segment_id = db_call'.result[2]
              higher == {i \in IndexesOf(transcripts, original.session_id) :
                            i > original.segment_index}
          IN  /\ new.session_id = original.session_id
              /\ original.segment_index < new.segment_index
              /\ higher = {} => new.segment_index = original.segment_index + Unit
              /\ higher # {} =>
                    /\ 2 * new.segment_index = original.segment_index + MinOf(higher)
                    /\ new.segment_index < MinOf(higher)]_vars

\* Indexes 1.0 and 2.0, and the split of the row at 1.0 has made a row at 1.5.
C19_Witness ==
    /\ db_call.op = "split_transcript" /\ db_call.exc = "none"
    /\ \E r \in transcripts :
          /\ r.segment_id = db_call.result[2]
          /\ 2 * r.segment_index = 3 * Unit
          /\ IndexesOf(transcripts, r.session_id) = {Unit, r.segment_index, 2 * Unit}
    /\ \E r \in transcripts : r.segment_id = db_call.segment_id /\ r.segment_index = Unit

\* C20: a successful split adds one row and changes, of the rows there were,
\* the original's segment_content and duration and nothing else.
C20_SplitFrame ==
    [][Succeeded("split_transcript") =>
          LET original == CHOOSE r \in transcripts : r.segment_id = db_call'.segment_id
          IN  /\ Cardinality(transcripts') = Cardinality(transcripts) + 1
              /\ \A r \in transcripts \ {original} : r \in transcripts'
              /\ \E u \in transcripts' :
                    /\ u = [original EXCEPT !.segment_content = u.segment_content,
                                            !.duration = u.duration]
                    /\ Cardinality(transcripts' \ (transcripts \cup {u})) = 1]_vars

\* A split has shortened its original while a row of the other session and
\* another row of the same session are there.
C20_Witness ==
    /\ db_call.op = "split_transcript" /\ db_call.exc = "none"
    /\ \E r \in transcripts :
          /\ r.segment_id = db_call.segment_id
          /\ r.segment_content = <<"a">>
          /\ r.duration = 2
          /\ Cardinality(OfSession(transcripts, r.session_id)) = 3
          /\ \E o \in transcripts : o.session_id # r.session_id

Abs(x) == IF x < 0 THEN -x ELSE x

\* The row of the table rows with the id segment_id.
RowOf(rows, segment_id) == CHOOSE r \in rows : r.segment_id = segment_id

\* The ratio of a split at position p of a content of length n, as numerator
\* and denominator: p / n, or 1 / 2 for an empty content.
RatioNum(p, n) == IF n > 0 THEN p ELSE 1
RatioDen(p, n) == IF n > 0 THEN n ELSE 2

AllKnown(rows, segment_ids) ==
    \A k \in DOMAIN segment_ids : WithId(rows, segment_ids[k]) # {}

\* The list names rows of more than one session.
CrossSession(rows, segment_ids) ==
    \E j, k \in DOMAIN segment_ids :
        RowOf(rows, segment_ids[j]).session_id # RowOf(rows, segment_ids[k]).session_id

\* A further call can be made.
CanCall == nops < MaxDbOps

\* C23: in every state in which a call can be made, a split of an unknown segment
\* id, a merge of fewer than two ids, a merge naming an unknown id at any
\* position and a merge of ids of different sessions raise ValueError and
\* leave the table as it was: no row updated, inserted or deleted.
C23_InvalidLeavesStore ==
    CanCall =>
    /\ \A segment_id \in SegmentIds, split_position \in SplitPositions, content \in NewContents :
          WithId(transcripts, segment_id) = {} =>
              LET res == SplitResult(transcripts, segment_id_seq, segment_id,
                                     split_position, content)
              IN  res.call.exc = "ValueError" /\ res.rows = transcripts
    /\ \A segment_ids \in IdLists, keep_index \in KeepIndexes :
          (\/ Len(segment_ids) < 2
           \/ ~AllKnown(transcripts, segment_ids)
           \/ CrossSession(transcripts, segment_ids)) =>
              LET res == MergeResult(transcripts, segment_ids, keep_index)
              IN  res.call.exc = "ValueError" /\ res.rows = transcripts

\* A merge of a row of session 1 with a row of session 2 has just been
\* refused, and both rows are there.
C23_Witness ==
    /\ db_call.op = "merge_transcripts" /\ db_call.exc = "ValueError"
    /\ db_call.msg = "different sessions"
    /\ Cardinality(OfSession(transcripts, 1)) = 1
    /\ Cardinality(OfSession(transcripts, 2)) = 1

\* The lists that name the ids of segment_ids in another or the same order.
Reorderings(segment_ids) ==
    {[k \in DOMAIN segment_ids |-> segment_ids[f[k]]] :
        f \in {g \in [DOMAIN segment_ids -> DOMAIN segment_ids] :
                  \A i, j \in DOMAIN segment_ids : g[i] = g[j] => i = j}}

\* C24: in every state in which a call can be made, merge_transcripts
\* called with a list of ids and called with any permutation of that list
\* end the same way: the same exception or the same returned id, and the
\* same table.
C24_MergeOrderIndependent ==
    CanCall =>
        \A segment_ids \in IdLists, keep_index \in KeepIndexes :
            \A permuted \in Reorderings(segment_ids) :
                LET a == MergeResult(transcripts, segment_ids, keep_index)
                    b == MergeResult(transcripts, permuted, keep_index)
                IN  /\ a.rows = b.rows
                    /\ a.call.exc = b.call.exc
                    /\ a.call.result = b.call.result

\* A merge called with the higher-index id first has kept the lower-index
\* row, with the contents in index order.
C24_Witness ==
    /\ db_call.op = "merge_transcripts" /\ db_call.exc = "none"
    /\ db_call.segment_ids = <<2, 1>>
    /\ db_call.result = <<1>>
    /\ \E r \in transcripts :
          /\ r.segment_id = 1
          /\ r.segment_content = <<"a", "b">>
          /\ r.duration = 4

\* The row of the set S with the lowest segment_index.
Lowest(S) == CHOOSE r \in S : \A x \in S : r.segment_index <= x.segment_index

\* The contents of the rows of S, lowest index first, and their durations
\* added up.
RECURSIVE ContentInOrder(_)
ContentInOrder(S) ==
    IF S = {} THEN <<>>
    ELSE Lowest(S).segment_content \o ContentInOrder(S \ {Lowest(S)})

RECURSIVE SumOfDurations(_)
SumOfDurations(S) ==
    IF S = {} THEN 0
    ELSE LET r == CHOOSE x \in S : TRUE IN r.duration + SumOfDurations(S \ {r})

\* The rows a successful merge was called on.
MergeInputsOf(rows, call) == {RowOf(rows, call.segment_ids[k]) : k \in DOMAIN call.segment_ids}

Rest(content, p) == SubSeq(content, p + 1, Len(content))

\* The splits of a row at a position within its content, the new content
\* being the rest, that the model makes.
RoundTrips ==
    {<<x, p>> \in transcripts \X SplitPositions :
        /\ 0 <= p /\ p <= Len(x.segment_content)
        /\ Rest(x.segment_content, p) \in NewContents
        /\ Splittable(transcripts, x.segment_id)}

\* The row left by the merge, in either order, of the two ids a split of x
\* at p returned, compared with x by the test same(x, merged, rows); TRUE
\* when the split does not succeed.
RoundTrip(x, p, same(_, _, _)) ==
    LET s == SplitResult(transcripts, segment_id_seq, x.segment_id, p,
                         Rest(x.segment_content, p))
    IN  s.call.exc = "none" =>
            \A ids \in Reorderings(s.call.result) :
                LET m == MergeResult(s.rows, ids, <<>>)
                IN  /\ m.call.exc = "none"
                    /\ m.call.result = <<x.segment_id>>
                    /\ same(x, RowOf(m.rows, x.segment_id), m.rows)

SameButDuration(x, merged, rows) ==
    /\ merged.segment_content = x.segment_content
    /\ merged.start_time = x.start_time
    /\ merged.segment_index = x.segment_index
    /\ Cardinality(OfSession(rows, x.session_id))
          = Cardinality(OfSession(transcripts, x.session_id))

SameExactly(x, merged, rows) ==
    SameButDuration(x, merged, rows) /\ merged.duration = x.duration

SameWithinAMicrosecond(x, merged, rows) ==
    SameButDuration(x, merged, rows) /\ Abs(merged.duration - x.duration) <= 1

\* Two further calls can be made.
CanCallTwice == nops + 1 < MaxDbOps

Ordered(rows) ==
    \A r1, r2 \in rows :
        (r1.session_id = r2.session_id /\ r1.segment_index < r2.segment_index)
            => r1.start_time <= r2.start_time

\* C29: a successful split or merge made on a table whose segments are in
\* the same order by segment_index and by start_time leaves them so.
C29_OrderingPreserved ==
    [][((Succeeded("split_transcript") \/ Succeeded("merge_transcripts")) /\ Ordered(transcripts))
          => Ordered(transcripts')]_vars

\* The bindings of the pair (session_id, speaker_id) in the table rows.
BindingsOf(rows, session_id, speaker_id) ==
    {r \in rows : r.session_id = session_id /\ r.speaker_id = speaker_id}

\* C28: a successful add_speaker_to_session for a pair that is bound already
\* returns the id of the binding there is and adds no row; for a pair not
\* yet bound and no local id given, the new row gets the local ordinal 1 in
\* a session without bindings and the highest ordinal plus 1 otherwise,
\* never 0.
C28_BindingIdempotent ==
    [][Succeeded("add_speaker_to_session") =>
          LET bound == BindingsOf(session_speakers, db_call'.session_id, db_call'.speaker_id)
              locals == {r.local_speaker_id :
                            r \in {x \in session_speakers : x.session_id = db_call'.session_id}}
          IN  /\ bound # {} =>
                    /\ session_speakers' = session_speakers
                    /\ \E r \in bound : db_call'.result = <<r.id>>
              /\ (bound = {} /\ db_call'.auto) =>
                    \E r \in session_speakers' \ session_speakers :
                        /\ r.id = db_call'.result[1]
                        /\ r.local_speaker_id = IF locals = {} THEN 1 ELSE MaxOf(locals) + 1
                        /\ r.local_speaker_id # 0]_vars

Distinct(segment_ids) ==
    \A j, k \in DOMAIN segment_ids : j # k => segment_ids[j] # segment_ids[k]

\* The call of client c is the only one in progress.
Alone(c) == \A d \in Clients \ {c} : tx[d].pc = "idle"

\* The split of client c has read its original, and the row of the
\* original that rows holds is not the one the split read.
Shortened(c, rows) ==
    \E r \in rows : r.segment_id = tx[c].call.segment_id /\ r # tx[c].original[1]

\* The row the split of client c inserted is in rows.
NewSegmentIn(c, rows) ==
    tx[c].result # <<>> /\ \E r \in rows : r.segment_id = tx[c].result[2]

\* What the last reader saw is no state of before or after the split of
\* client c: a get_session_transcripts saw one of the two rows as the split
\* leaves it and the other as it was; a get_transcript saw one row as the
\* split leaves it while the table holds the other as it was.
SplitTorn(c) ==
    LET original == tx[c].original[1]
    IN  IF observed.call = "get_session_transcripts"
        THEN \/ Shortened(c, observed.rows) /\ ~NewSegmentIn(c, observed.rows)
             \/ NewSegmentIn(c, observed.rows) /\ original \in observed.rows
        ELSE \/ Shortened(c, observed.rows) /\ ~NewSegmentIn(c, transcripts)
             \/ NewSegmentIn(c, observed.rows) /\ original \in transcripts

\* C22: while a split_transcript is the only call in progress, and after
\* it, no get_transcript and no get_session_transcripts has seen the
\* original shortened without the new segment, nor the new segment with the
\* original not shortened.
C22_SplitAtomicForReaders ==
    \A c \in Clients :
        (/\ tx[c].call.op = "split_transcript"
         /\ tx[c].original # <<>>
         /\ Alone(c)
         /\ observed # <<>>) => ~SplitTorn(c)

\* A split has updated the original and not yet inserted the new row, and
\* a reader of the session gets the rows as they were before the split.
C22_Witness ==
    \E c \in Clients :
        /\ tx[c].call.op = "split_transcript"
        /\ tx[c].pc = "insert_new"
        /\ tx[c].puts # {}
        /\ Alone(c)
        /\ observed # <<>>
        /\ observed.call = "get_session_transcripts"
        /\ observed.rows = Stored

\* The merge of client c has read and sorted its rows, and what the last
\* reader saw has one of segments[1:] deleted and the first as it was read.
MergeTorn(c) ==
    LET segments == tx[c].segments
        gone(rows) == \E k \in 2..Len(segments) :
                          \A r \in rows : r.segment_id # segments[k].segment_id
    IN  /\ tx[c].pc \in {"delete_segment", "update_first", "commit", "done"}
        /\ IF observed.call = "get_session_transcripts"
           THEN /\ observed.session_id = segments[1].session_id
                /\ gone(observed.rows)
                /\ segments[1] \in observed.rows
           ELSE /\ \E k \in 2..Len(segments) : observed.segment_id = segments[k].segment_id
                /\ observed.rows = {}
                /\ segments[1] \in transcripts

\* C26: when a merge_transcripts of N distinct ids that is the only call in
\* progress returns, the table has of the rows it was given only the one
\* with the lowest index, under the id the call returns and with a new
\* content, it has N - 1 rows fewer, and every row that was not given is
\* as before; and no reader, at any step of the merge, has seen one of the
\* other rows deleted and the kept row as it was.
C26_MergeLeavesOne ==
    [][\A c \in Clients :
          (/\ tx[c].call.op = "merge_transcripts"
           /\ Distinct(tx[c].call.segment_ids)
           /\ Alone(c)) =>
              /\ (tx[c].pc = "commit" /\ tx'[c].pc = "done") =>
                    LET given == MergeInputsOf(transcripts, tx[c].call)
                        ids == {r.segment_id : r \in given}
                        left == {r \in transcripts' : r.segment_id \in ids}
                    IN  /\ Cardinality(left) = 1
                        /\ \A r \in left :
                              /\ r.segment_id = Lowest(given).segment_id
                              /\ tx'[c].result = <<r.segment_id>>
                              /\ r \notin transcripts
                        /\ Cardinality(transcripts') =
                              Cardinality(transcripts) - (Len(tx[c].call.segment_ids) - 1)
                        /\ \A r \in transcripts : r.segment_id \notin ids => r \in transcripts'
              /\ (observed' # <<>>) => ~MergeTorn(c)']_vars

\* A merge of three ids has returned: of the three rows there is the first.
C26_Witness ==
    \E c \in Clients :
        /\ tx[c].call.op = "merge_transcripts"
        /\ Len(tx[c].call.segment_ids) = Cardinality(Stored)
        /\ tx[c].pc = "done"
        /\ tx[c].exc = "none"
        /\ Alone(c)
        /\ Cardinality(transcripts) = 1
        /\ observed # <<>>
        /\ observed.call = "get_transcript"
        /\ observed.rows = {}

\* Segment i has had a partial, and one of the three annotators has not
\* reported finished=true for it.
Pending(i) == i \in DOMAIN heard /\ \E a \in Kinds : <<i, a>> \notin reported

\* C31: a segment for which one of the annotators has never reported
\* finished=true is pending, whatever the others report: no record of it was
\* put on the queue, none was sent to the client, none is in the table, and
\* its record is in the accumulator map; and it keeps no other segment
\* back: no record stays in the map with its three flags true.
C31_PendingForever ==
    /\ \A i \in Segs :
          Pending(i) =>
              /\ TimesEnqueued(i) = 0
              /\ \A k \in DOMAIN sent_log : sent_log[k] # i
              /\ \A r \in db_transcripts : r.segment_id # i
              /\ i \in DOMAIN intermediate_result
              /\ ~AllFlagsTrue(intermediate_result[i])
    /\ \A j \in DOMAIN intermediate_result : ~AllFlagsTrue(intermediate_result[j])

\* Segment 1 waits for the keyword spotter, the other two annotators have
\* finished it; segment 2, completed after the first partial of segment 1,
\* was enqueued and sent.
C31_Witness ==
    /\ Pending(1)
    /\ <<1, "asr">> \in reported
    /\ <<1, "sid">> \in reported
    /\ <<1, "kws">> \notin reported
    /\ enq_log # <<>>
    /\ enq_log[1].kind = "seg"
    /\ enq_log[1].idx = 2
    /\ sent_log = <<2>>
    /\ nrecv = inputs.budget

\* C32: a receiver is never suspended inside the handling of a partial:
\* the put on result_queue never waits, whatever the queue holds, so that
\* in every state in which another task can take a step each record merged
\* so far has been checked and, with its three flags true, enqueued.
C32_PartialAtomic ==
    /\ in_flight = <<>>
    /\ ~PutBlocks(result_queue)
    /\ \A t \in Receivers : t \notin Putting
    /\ \A i \in DOMAIN intermediate_result : ~AllFlagsTrue(intermediate_result[i])

\* A second record was put on the queue while the first was still there.
C32_Witness ==
    /\ Len(result_queue) = 2
    /\ Len(enq_log) = 2
    /\ enq_log[2].kind = "seg"
    /\ client_msgs = <<>>
    /\ in_flight = <<>>

\* C33: two add_transcript calls without index on the same session, their
\* statements interleaved in any way, both return an id, and the two rows
\* are in the table at two different indexes.
C33_ConcurrentAppends ==
    \A c, d \in Clients :
        (/\ c # d
         /\ tx[c].call.op = "add_transcript" /\ tx[d].call.op = "add_transcript"
         /\ tx[c].call.session_id = tx[d].call.session_id
         /\ tx[c].pc = "done" /\ tx[d].pc = "done") =>
            /\ tx[c].exc = "none" /\ tx[d].exc = "none"
            /\ \E r, q \in transcripts :
                  /\ <<r.segment_id>> = tx[c].result
                  /\ <<q.segment_id>> = tx[d].result
                  /\ r.segment_index # q.segment_index

\* The flag of annotator a in a record.
FlagOf(a) == IF a = "asr" THEN "asr_finished" ELSE IF a = "sid" THEN "sid_finished" ELSE "kws_finished"

\* C34: while the record of a segment is open, the flag of an annotator that
\* has reported finished=true for it stays true whatever that annotator
\* sends later, and a segment for which the three annotators have each
\* reported finished=true has been enqueued.
C34_FlagsMonotonic ==
    \A i \in Segs :
        /\ \A a \in Kinds :
              (/\ <<i, a>> \in reported
               /\ i \in DOMAIN intermediate_result
               /\ FlagOf(a) \in DOMAIN intermediate_result[i]
               /\ TimesEnqueued(i) = 0) => intermediate_result[i][FlagOf(a)]
        /\ (\A a \in Kinds : <<i, a>> \in reported) => TimesEnqueued(i) >= 1

\* C35: the message the client gets for a segment has the content, the
\* speaker and the type the record had when it was put on the queue,
\* whatever partials of that segment arrived before the dispatcher took it.
C35_EnqueuedIsSent ==
    \A k \in DOMAIN client_msgs :
        (k \in DOMAIN enq_log /\ enq_log[k].kind = "seg") =>
            \A x \in {"segment_content", "speaker_id", "speaker_name", "segment_type"} :
                client_msgs[k][x] = enq_log[k].record[x]

\* C36: a partial for a segment that was enqueued before, with either
\* finished value, leaves the receiver that takes it running: the step
\* raises nothing.
C36_LatePartialHarmless ==
    [][\A i \in Segs :
          (/\ TimesEnqueued(i) >= 1
           /\ nrecv' = nrecv + 1
           /\ i \in DOMAIN intermediate_result
           /\ intermediate_result'[i] # intermediate_result[i]) =>
              /\ \A t \in Receivers : task[t] = "running" => task'[t] = "running"
              /\ first_exc' = first_exc]_vars

\* C37: when two split_transcript calls on the same segment, their
\* statements interleaved in any way, have both finished, committed or
\* rolled back, the durations of the rows of the session add up to what
\* they added up to before the calls.
C37_ConcurrentSplitsConserve ==
    \A c, d \in Clients :
        (/\ c # d
         /\ tx[c].call.op = "split_transcript" /\ tx[d].call.op = "split_transcript"
         /\ tx[c].call.segment_id = tx[d].call.segment_id
         /\ tx[c].pc = "done" /\ tx[d].pc = "done") =>
            \A session_id \in DbSessions :
                SumOfDurations(OfSession(transcripts, session_id))
                    = SumOfDurations(OfSession(Stored, session_id))

\* C38: whatever integer split_position a split is given, below 0 and
\* beyond the length of the content too, the shortened original and the new
\* row have durations between 0 and the duration of the original, and the
\* new row starts no later than the original ended.
C38_DurationsInRange ==
    [][Succeeded("split_transcript") =>
          LET original == RowOf(transcripts, db_call'.segment_id)
              updated == RowOf(transcripts', db_call'.result[1])
              new == RowOf(transcripts', db_call'.result[2])
          IN  original.duration >= 0 =>
                  /\ 0 <= updated.duration /\ updated.duration <= original.duration
                  /\ 0 <= new.duration /\ new.duration <= original.duration
                  /\ new.start_time <= original.start_time + original.duration]_vars

\* C39: a merge_transcripts whose list has an id twice, once it has
\* finished, has either failed and left the table as it was, or it has
\* succeeded and the row it returns has the content and the duration of
\* the rows named, each counted once, the rows not named being as before.
C39_DuplicateIdsHarmless ==
    \A c \in Clients :
        (/\ tx[c].call.op = "merge_transcripts"
         /\ ~Distinct(tx[c].call.segment_ids)
         /\ Alone(c)
         /\ tx[c].pc = "done") =>
            LET given == MergeInputsOf(Stored, tx[c].call)
            IN  IF tx[c].exc # "none" THEN transcripts = Stored
                ELSE /\ \E r \in transcripts :
                          /\ <<r.segment_id>> = tx[c].result
                          /\ r.segment_content = ContentInOrder(given)
                          /\ r.duration = SumOfDurations(given)
                     /\ \A r \in Stored \ given : r \in transcripts

\* C40: no step of the connection, and no other connection that is
\* opened, deletes or changes a row of the tables of sessions, speakers or
\* transcripts: the setup of the first connection of a process, with the
\* counter at 0, leaves the rows of earlier runs where they are.
C40_RowsSurviveConnections ==
    [][/\ db_sessions \subseteq db_sessions'
       /\ db_speakers \subseteq db_speakers'
       /\ db_transcripts \subseteq db_transcripts']_vars

====
